---- MODULE Spec2Model ----
(***************************************************************************)
(* Model of crypto/src/batch_transcript.rs: BatchTranscript, the batch     *)
(* orchestration layer of the KZG ceremony.  A BatchTranscript holds one   *)
(* Transcript per slot and the history of participants; verify_add         *)
(* checks a bundle slot by slot (rayon par_iter_mut / try_for_each) and,   *)
(* if every slot verified, folds the bundle into the slots and records     *)
(* the identity.                                                           *)
(*                                                                         *)
(* Transcript (new, contribution, verify, add) lives in transcript.rs,     *)
(* which batch_transcript.rs only calls.  It is modelled over a small      *)
(* prime field: the powers of a slot are represented by their secret tau,  *)
(* a contribution by the new tau and the public key of the secret that     *)
(* was multiplied in; of the witness of a slot its length is kept.         *)
(***************************************************************************)
EXTENDS Integers, Sequences, FiniteSets, TLC

\* Largest number of slots a BatchTranscript is constructed with.
MaxSlots == 2
\* Largest number of rounds committed in one behaviour.
MaxRounds == 2
\* Order of the scalar field the secrets live in (a prime).
FieldOrder == 3

\* Slot descriptors (num_g1, num_g2) handed to BatchTranscript::new; the
\* slots of one batch differ in size from their neighbours.
Descriptors == {<<4, 2>>, <<8, 4>>}
\* Identity: the sentinel and the concrete identities.
IdentityNone == "None"
Identities == {"P1", "P2"}
\* EcdsaSignature: the empty sentinel; Option<EcdsaSignature> of a bundle.
SignatureEmpty == "empty"
BundleSignatures == {"NoSignature", "sig"}

\* Non-zero secrets a contributor may multiply in; 1 leaves the powers as
\* they are.
Secrets == 1..(FieldOrder - 1)

SeqsUpTo(S, n) == UNION {[1..k -> S] : k \in 0..n}
DescriptorSeqs ==
    {ds \in SeqsUpTo(Descriptors, MaxSlots) :
        \A i \in 1..(Len(ds) - 1) : ds[i] # ds[i + 1]}

----------------------------------------------------------------------------
\* Transcript (transcript.rs)

\* Transcript::new(num_g1, num_g2): genesis powers, nothing folded in yet.
TranscriptNew(d) ==
    [num_g1 |-> d[1], num_g2 |-> d[2], powers |-> 1, added |-> 0]

\* Transcript::contribution(): the current powers with the unit public key.
TranscriptContribution(t) ==
    [num_g1 |-> t.num_g1, num_g2 |-> t.num_g2, powers |-> t.powers,
     pot_pubkey |-> 1]

\* Transcript::verify(contribution): "ok" or the reason of the failure.
TranscriptVerify(t, c) ==
    IF c.num_g1 # t.num_g1 THEN "UnexpectedNumG1Powers"
    ELSE IF c.num_g2 # t.num_g2 THEN "UnexpectedNumG2Powers"
    ELSE IF c.pot_pubkey = 0 THEN "ZeroPubkey"
    ELSE IF c.powers # (t.powers * c.pot_pubkey) % FieldOrder
         THEN "PubKeyPairingFailed"
    ELSE "ok"

\* Transcript::add(contribution): the contribution's powers replace the
\* slot's (all num_g1 + num_g2 of them), and the witness grows by one entry.
TranscriptAdd(t, c) ==
    [num_g1 |-> c.num_g1, num_g2 |-> c.num_g2, powers |-> c.powers,
     added |-> t.added + 1]

----------------------------------------------------------------------------
\* BatchTranscript (batch_transcript.rs)

VARIABLES
    transcripts,                   \* BatchTranscript.transcripts
    participant_ids,               \* BatchTranscript.participant_ids
    participant_ecdsa_signatures,  \* BatchTranscript.participant_ecdsa_signatures
    pc,            \* position of verify_add: "idle", "verify" or "commit"
    contribution,  \* argument of the verify_add call in progress
    identity,      \* argument of the verify_add call in progress
    task,          \* per slot: state of its verification task
    next,          \* index of the slot the commit loop adds to next
    result,        \* value the last verify_add call returned
    pre,           \* the BatchTranscript as it was when the call was entered
    template,      \* value the last contribution() call returned
    committed,     \* number of verify_add calls that returned Ok
    accepted,      \* the last call returned Ok for a filled copy of template
    resubmitted,   \* the current or last call: a filled copy right after it
    descriptors,   \* argument of new
    n,             \* current or last call: contribution.contributions.len()
    invalid        \* current or last call: <<slot, error>> of the bad slots

vars == <<transcripts, participant_ids, participant_ecdsa_signatures, pc,
          contribution, identity, task, next, result, pre, template,
          committed, accepted, resubmitted, descriptors, n, invalid>>

\* The three fields of the struct.
Self == [transcripts |-> transcripts,
         participant_ids |-> participant_ids,
         participant_ecdsa_signatures |-> participant_ecdsa_signatures]

NumSlots == Len(transcripts)

\* BatchContribution { contributions, ecdsa_signature }
BatchContribution(cs, sig) == [contributions |-> cs, ecdsa_signature |-> sig]

\* Faulty variant of ContributionOf: the last slot is left out.
ContributionOfButLast(ts) ==
    BatchContribution([i \in 1..(Len(ts) - 1) |-> TranscriptContribution(ts[i])],
                      "NoSignature")

\* The value contribution() returns for the transcripts ts.
ContributionOf(ts) ==
    BatchContribution([i \in 1..Len(ts) |-> TranscriptContribution(ts[i])],
                      "NoSignature")

\* Result<(), CeremoniesError>
NoCall == [kind |-> "NoCall", expected |-> 0, actual |-> 0, index |-> 0,
           reason |-> ""]
Ok == [kind |-> "Ok", expected |-> 0, actual |-> 0, index |-> 0,
       reason |-> ""]
UnexpectedNumContributions(e, a) ==
    [kind |-> "UnexpectedNumContributions", expected |-> e, actual |-> a,
     index |-> 0, reason |-> ""]
InvalidCeremony(i, e) ==
    [kind |-> "InvalidCeremony", expected |-> 0, actual |-> 0, index |-> i,
     reason |-> e]

----------------------------------------------------------------------------
\* What a participant does with a template before submitting it.

\* Multiply the secret x into a sub-contribution.
Fill(c, x) == [c EXCEPT !.powers = (c.powers * x) % FieldOrder,
                        !.pot_pubkey = (c.pot_pubkey * x) % FieldOrder]
\* Corruptions of a sub-contribution.
ZeroOut(c) == [c EXCEPT !.powers = 0, !.pot_pubkey = 0]
Tamper(c) == [c EXCEPT !.powers = (c.powers * 2) % FieldOrder]
Resize(c) == [c EXCEPT !.num_g1 = c.num_g1 + 1]

SubVariants(c) == {Fill(c, x) : x \in Secrets} \cup {ZeroOut(c)}

\* Every slot of the template cs filled or corrupted.
RECURSIVE Variants(_)
Variants(cs) ==
    IF cs = <<>> THEN {<<>>}
    ELSE {Append(p, v) : p \in Variants(SubSeq(cs, 1, Len(cs) - 1)),
                         v \in SubVariants(cs[Len(cs)])}

Junk == TranscriptContribution(TranscriptNew(<<4, 2>>))

\* The sequences of sub-contributions submitted for the template cs: every
\* slot filled or zeroed, the first slot resized, the last slot tampered
\* with, or the template one short or one long.
Submissions(cs) ==
    Variants(cs)
      \cup {Append(cs, Junk)}
      \cup (IF Len(cs) > 0
            THEN {SubSeq(cs, 1, Len(cs) - 1),
                  [cs EXCEPT ![1] = Resize(cs[1])],
                  [cs EXCEPT ![Len(cs)] = Tamper(cs[Len(cs)])]}
            ELSE {})

\* cs is the sequence ts with a secret other than 1 multiplied into every
\* slot.
ValidlyFilled(cs, ts) ==
    /\ Len(cs) = Len(ts)
    /\ \A i \in 1..Len(cs) : \E x \in Secrets \ {1} : cs[i] = Fill(ts[i], x)

\* The bundle c is the template t, a value contribution() returned, validly
\* filled.
FilledFrom(c, t) ==
    /\ t.ecdsa_signature = "NoSignature"
    /\ ValidlyFilled(c.contributions, t.contributions)

----------------------------------------------------------------------------
\* No call in progress: no argument, no task.
NoContribution == BatchContribution(<<>>, "NoSignature")

\* Faulty variant of New: the transcripts collected in reverse order.
NewReversed(iter) ==
    [transcripts |-> [i \in 1..Len(iter) |->
                         TranscriptNew(iter[Len(iter) + 1 - i])],
     participant_ids |-> <<IdentityNone>>,
     participant_ecdsa_signatures |-> <<SignatureEmpty>>]

\* contribution() has not been called yet.
NoTemplate == BatchContribution(<<>>, "NoTemplate")

\* BatchTranscript::new(iter)
New(iter) ==
    [transcripts |-> [i \in 1..Len(iter) |-> TranscriptNew(iter[i])],
     participant_ids |-> <<IdentityNone>>,
     participant_ecdsa_signatures |-> <<SignatureEmpty>>]

Init ==
    \E ds \in DescriptorSeqs :
        /\ transcripts = New(ds).transcripts
        /\ participant_ids = New(ds).participant_ids
        /\ participant_ecdsa_signatures = New(ds).participant_ecdsa_signatures
        /\ pre = New(ds)
        /\ pc = "idle"
        /\ contribution = NoContribution
        /\ identity = IdentityNone
        /\ task = <<>>
        /\ next = 1
        /\ result = NoCall
        /\ template = NoTemplate
        /\ committed = 0
        /\ accepted = FALSE
        /\ resubmitted = FALSE
        /\ descriptors = ds
        /\ n = -1
        /\ invalid = {}

\* Faulty variant of Contribution: the read does not wait for a verify_add
\* that is under way.
ContributionAnyTime ==
    /\ template' = ContributionOf(transcripts)
    /\ accepted' = FALSE
    /\ UNCHANGED <<transcripts, participant_ids, participant_ecdsa_signatures,
                   pc, contribution, identity, task, next, result, pre,
                   committed, resubmitted, descriptors, n, invalid>>

\* BatchTranscript::contribution(&self)
Contribution ==
    /\ pc = "idle"
    /\ template' = ContributionOf(transcripts)
    /\ accepted' = FALSE
    /\ UNCHANGED <<transcripts, participant_ids, participant_ecdsa_signatures,
                   pc, contribution, identity, task, next, result, pre,
                   committed, resubmitted, descriptors, n, invalid>>

\* Faulty variant of CountMatches: an unsigned bundle is turned away.
CountMatchesSigned(ts, c) ==
    Len(ts) = Len(c.contributions) /\ c.ecdsa_signature # "NoSignature"

\* The count check at the head of verify_add.
CountMatches(ts, c) == Len(ts) = Len(c.contributions)

\* Faulty variant of CountError: the two counts in the other order.
CountErrorSwapped(ts, c) ==
    UnexpectedNumContributions(Len(c.contributions), Len(ts))

\* The error the count check returns.
CountError(ts, c) ==
    UnexpectedNumContributions(Len(ts), Len(c.contributions))

\* verify_add(&mut self, contribution, identity): entry and count check.
VerifyAdd(c, id) ==
    /\ pc = "idle"
    /\ committed < MaxRounds
    /\ pre' = Self
    /\ resubmitted' = (accepted /\ FilledFrom(c, template))
    /\ n' = Len(c.contributions)
    /\ IF CountMatches(transcripts, c)
       THEN /\ pc' = "verify"
            /\ contribution' = c
            /\ identity' = id
            /\ task' = [i \in 1..NumSlots |-> "pending"]
            /\ result' = NoCall
            /\ invalid' = {p \in {<<i, TranscriptVerify(transcripts[i],
                                                         c.contributions[i])>> :
                                    i \in 1..NumSlots} : p[2] # "ok"}
            /\ UNCHANGED accepted
       ELSE /\ result' = CountError(transcripts, c)
            /\ accepted' = FALSE
            /\ invalid' = {}
            /\ UNCHANGED <<pc, contribution, identity, task>>
    /\ UNCHANGED <<transcripts, participant_ids, participant_ecdsa_signatures,
                   next, template, committed, descriptors>>

\* Faulty variant of Failed: an Err of a closure is never seen by the join.
FailedNever(i) == FALSE

\* The result of the closure of slot i is an Err.
Failed(i) == task[i] \notin {"pending", "ok", "skipped"}

\* Faulty variant of VerifySlot: every task checks the first slot.
VerifySlotFirst(ts, c, i) == TranscriptVerify(ts[1], c.contributions[1])

\* What the closure of try_for_each yields for slot i.
VerifySlot(ts, c, i) == TranscriptVerify(ts[i], c.contributions[i])

\* Faulty variant of VerifyTask: the closure, which holds the slot by
\* mutable reference, adds the sub-contribution as soon as it has verified.
VerifyTaskAdding(i) ==
    /\ pc = "verify"
    /\ task[i] = "pending"
    /\ task' = [task EXCEPT ![i] = VerifySlot(transcripts, contribution, i)]
    /\ transcripts' =
          IF VerifySlot(transcripts, contribution, i) = "ok"
          THEN [transcripts EXCEPT
                  ![i] = TranscriptAdd(@, contribution.contributions[i])]
          ELSE transcripts
    /\ UNCHANGED <<participant_ids, participant_ecdsa_signatures,
                   pc, contribution, identity, next, result, pre, template,
                   committed, accepted, resubmitted, descriptors, n, invalid>>

\* One task of the parallel iterator runs the closure for slot i.
VerifyTask(i) ==
    /\ pc = "verify"
    /\ task[i] = "pending"
    /\ task' = [task EXCEPT ![i] = VerifySlot(transcripts, contribution, i)]
    /\ UNCHANGED <<transcripts, participant_ids, participant_ecdsa_signatures,
                   pc, contribution, identity, next, result, pre, template,
                   committed, accepted, resubmitted, descriptors, n, invalid>>

\* try_for_each stops handing out slots once a closure has returned Err.
SkipTask(i) ==
    /\ pc = "verify"
    /\ task[i] = "pending"
    /\ \E j \in 1..NumSlots : Failed(j)
    /\ task' = [task EXCEPT ![i] = "skipped"]
    /\ UNCHANGED <<transcripts, participant_ids, participant_ecdsa_signatures,
                   pc, contribution, identity, next, result, pre, template,
                   committed, accepted, resubmitted, descriptors, n, invalid>>

\* Faulty variant of SlotError: the index counted from 1.
SlotErrorOneBased(i, e) == InvalidCeremony(i, e)

\* The error of slot i (1-based here, 0-based in enumerate()).
SlotError(i, e) == InvalidCeremony(i - 1, e)

\* try_for_each returns an Err one of the closures returned; `?` returns it.
JoinErr(i) ==
    /\ pc = "verify"
    /\ \A j \in 1..NumSlots : task[j] # "pending"
    /\ Failed(i)
    /\ result' = SlotError(i, task[i])
    /\ pc' = "idle"
    /\ accepted' = FALSE
    /\ contribution' = NoContribution
    /\ identity' = IdentityNone
    /\ task' = <<>>
    /\ UNCHANGED <<transcripts, participant_ids, participant_ecdsa_signatures,
                   next, pre, template, committed, resubmitted, descriptors,
                   n, invalid>>

\* Faulty variant of AllVerified: one verified slot is enough.
AnyVerified(tk) == tk = <<>> \/ \E j \in 1..Len(tk) : tk[j] = "ok"

\* The condition under which `?` lets verify_add go on to the add loop.
AllVerified(tk) == \A j \in 1..Len(tk) : tk[j] = "ok"

\* try_for_each returns Ok(()): every closure ran and returned Ok.
JoinOk ==
    /\ pc = "verify"
    /\ AllVerified(task)
    /\ pc' = "commit"
    /\ next' = 1
    /\ UNCHANGED <<transcripts, participant_ids, participant_ecdsa_signatures,
                   contribution, identity, task, result, pre, template,
                   committed, accepted, resubmitted, descriptors, n, invalid>>

\* Faulty variants of AddSlot: the loop adds to the first slot only; the
\* loop adds nothing; the updated slot is pushed instead of replaced; the
\* sub-contributions are taken in reverse order.
AddSlotFirstOnly(ts, c, i) ==
    IF i = 1 THEN [ts EXCEPT ![i] = TranscriptAdd(ts[i], c.contributions[i])]
    ELSE ts
AddSlotDropped(ts, c, i) == ts
AddSlotPushed(ts, c, i) == Append(ts, TranscriptAdd(ts[i], c.contributions[i]))
AddSlotReversed(ts, c, i) ==
    [ts EXCEPT ![i] = TranscriptAdd(ts[i], c.contributions[Len(ts) + 1 - i])]

\* One iteration of the add loop: transcript.add(contribution) on slot i.
AddSlot(ts, c, i) ==
    [ts EXCEPT ![i] = TranscriptAdd(ts[i], c.contributions[i])]

Add ==
    /\ pc = "commit"
    /\ next <= NumSlots
    /\ transcripts' = AddSlot(transcripts, contribution, next)
    /\ next' = next + 1
    /\ UNCHANGED <<participant_ids, participant_ecdsa_signatures, pc,
                   contribution, identity, task, result, pre, template,
                   committed, accepted, resubmitted, descriptors, n, invalid>>

\* Faulty variants of PushIdentity: the identity is inserted at the front;
\* nothing is pushed.
PushIdentityFront(ids, id) == <<id>> \o ids
PushNothing(ids, id) == ids

\* self.participant_ids.push(identity)
PushIdentity(ids, id) == Append(ids, id)

\* Faulty variant of Return: the signature of the bundle is pushed too.
ReturnPushingSignature ==
    /\ pc = "commit"
    /\ next > NumSlots
    /\ participant_ids' = PushIdentity(participant_ids, identity)
    /\ participant_ecdsa_signatures' =
          Append(participant_ecdsa_signatures, contribution.ecdsa_signature)
    /\ result' = Ok
    /\ pc' = "idle"
    /\ committed' = committed + 1
    /\ accepted' = FilledFrom(contribution, template)
    /\ contribution' = NoContribution
    /\ identity' = IdentityNone
    /\ task' = <<>>
    /\ next' = 1
    /\ UNCHANGED <<transcripts, pre, template, resubmitted, descriptors, n,
                   invalid>>

\* After the loop: push the identity and return Ok(()).
Return ==
    /\ pc = "commit"
    /\ next > NumSlots
    /\ participant_ids' = PushIdentity(participant_ids, identity)
    /\ result' = Ok
    /\ pc' = "idle"
    /\ committed' = committed + 1
    /\ accepted' = FilledFrom(contribution, template)
    /\ contribution' = NoContribution
    /\ identity' = IdentityNone
    /\ task' = <<>>
    /\ next' = 1
    /\ UNCHANGED <<transcripts, participant_ecdsa_signatures, pre, template,
                   resubmitted, descriptors, n, invalid>>

Next ==
    \/ Contribution
    \/ /\ pc = "idle"
       /\ committed < MaxRounds
       /\ \E cs \in Submissions(template.contributions),
             sig \in BundleSignatures, id \in Identities :
               VerifyAdd(BatchContribution(cs, sig), id)
    \/ \E i \in 1..NumSlots : VerifyTask(i)
    \/ \E i \in 1..NumSlots : SkipTask(i)
    \/ \E i \in 1..NumSlots : JoinErr(i)
    \/ JoinOk
    \/ Add
    \/ Return

Spec == Init /\ [][Next]_vars

\* The steps of a verify_add call that has been entered: the per-slot tasks
\* of the parallel iterator and the calling thread, which blocks on them.
Running ==
    \/ \E i \in 1..NumSlots : VerifyTask(i)
    \/ \E i \in 1..NumSlots : SkipTask(i)
    \/ \E i \in 1..NumSlots : JoinErr(i)
    \/ JoinOk
    \/ Add
    \/ Return

\* Every verification task eventually returns and the calling thread keeps
\* running; callers are free never to call again.
FairSpec == Spec /\ WF_vars(Running)

----------------------------------------------------------------------------
\* Properties

\* The BatchTranscript new(descriptors) is documented to return.
Genesis ==
    [transcripts |-> [i \in 1..Len(descriptors) |->
                         [num_g1 |-> descriptors[i][1],
                          num_g2 |-> descriptors[i][2],
                          powers |-> 1, added |-> 0]],
     participant_ids |-> <<IdentityNone>>,
     participant_ecdsa_signatures |-> <<SignatureEmpty>>]

\* C1 (atomicity): a call whose bundle has the right length and a slot that
\* does not verify never reaches the add loop, leaves the transcripts and
\* both histories as they were when it was entered, and returns
\* InvalidCeremony.
C1_Atomicity ==
    invalid # {} =>
        /\ pc \in {"verify", "idle"}
        /\ Self = pre
        /\ pc = "idle" => result.kind = "InvalidCeremony"

\* One of two slots was valid, the other not, after a committed round.
C1_Witness ==
    /\ pc = "idle"
    /\ NumSlots = 2
    /\ Cardinality(invalid) = 1
    /\ committed = 1
    /\ result.kind = "InvalidCeremony"

\* C2 (shape): a call with a bundle of n # N sub-contributions returns
\* UnexpectedNumContributions(N, n), expected count first, leaves the
\* transcripts and both histories unchanged and starts no verification.
C2_ShapeCheck ==
    (n >= 0 /\ n # NumSlots) =>
        /\ pc = "idle"
        /\ result = UnexpectedNumContributions(NumSlots, n)
        /\ Self = pre
        /\ task = <<>>
        /\ invalid = {}

\* One sub-contribution submitted to a two-slot batch.
C2_Witness ==
    /\ NumSlots = 2
    /\ n = 1
    /\ result.kind = "UnexpectedNumContributions"

\* C3 (no partial round between calls): between calls every slot has had
\* the same number of sub-contributions added, Len(participant_ids) - 1.
C3_NoPartialRound ==
    pc = "idle" =>
        \A i \in 1..NumSlots : transcripts[i].added = Len(participant_ids) - 1

\* A failed call after a committed round of a two-slot batch.
C3_Witness ==
    /\ pc = "idle"
    /\ NumSlots = 2
    /\ Len(participant_ids) = 2
    /\ result.kind = "InvalidCeremony"

\* C4 (verify before commit): a transcript slot changes only in the add
\* loop, and then the verification task of every slot has returned Ok.
C4_VerifyBeforeCommit ==
    [][transcripts' # transcripts =>
          /\ pc = "commit"
          /\ invalid = {}
          /\ Len(task) = NumSlots
          /\ \A j \in 1..NumSlots : task[j] = "ok"]_vars

\* The add loop has added to the first of two slots.
C4_Witness ==
    /\ pc = "commit"
    /\ NumSlots = 2
    /\ next = 2
    /\ transcripts[1] # pre.transcripts[1]

\* C5 (monotonic append), as claimed: a call that returns Ok has made both
\* histories one longer and the last identity is the one passed in.
C5_MonotonicAppend ==
    [][(pc = "commit" /\ pc' = "idle") =>
          /\ result' = Ok
          /\ Len(participant_ids') = Len(pre.participant_ids) + 1
          /\ participant_ids'[Len(participant_ids')] = identity
          /\ Len(participant_ecdsa_signatures')
               = Len(pre.participant_ecdsa_signatures) + 1]_vars

\* C6 (history synchronisation), as claimed: between calls the two histories
\* have the same length, 1 + the number of calls that returned Ok.
C6_HistoriesInStep ==
    pc = "idle" =>
        /\ Len(participant_ids) = Len(participant_ecdsa_signatures)
        /\ Len(participant_ids) = 1 + committed
        /\ Len(participant_ecdsa_signatures) = 1 + committed

C8_Acceptance ==
    (pc = "idle" /\ n >= 0) =>
        /\ result.kind = "Ok" <=> (n = NumSlots /\ invalid = {})
        /\ n # NumSlots => result.kind = "UnexpectedNumContributions"
        /\ (n = NumSlots /\ invalid # {}) => result.kind = "InvalidCeremony"

\* A two-slot batch has accepted two rounds.
C8_Witness ==
    /\ pc = "idle"
    /\ NumSlots = 2
    /\ committed = 2
    /\ result.kind = "Ok"

\* C9 (reported slot): the index of InvalidCeremony is the 0-based index of
\* a slot that does not verify, and the reason is that slot's error.
C9_ReportedSlot ==
    (pc = "idle" /\ result.kind = "InvalidCeremony") =>
        /\ result.index \in 0..(NumSlots - 1)
        /\ <<result.index + 1, result.reason>> \in invalid

\* Both slots were invalid and the second one was reported.
C9_Witness ==
    /\ pc = "idle"
    /\ NumSlots = 2
    /\ Cardinality(invalid) = 2
    /\ result.kind = "InvalidCeremony"
    /\ result.index = 1

\* C10 (genesis): until the first call returns Ok (its add loop aside) the
\* BatchTranscript is the genesis state: one genesis transcript per
\* descriptor, in order, participant_ids = [None], signatures = [empty].
C10_Genesis ==
    (committed = 0 /\ pc # "commit") => Self = Genesis

\* A call has failed on a two-slot batch that has not committed a round.
C10_Witness ==
    /\ pc = "idle"
    /\ NumSlots = 2
    /\ committed = 0
    /\ result.kind = "InvalidCeremony"

\* The bundle contribution() is documented to return in the current state:
\* per slot the slot's powers with the unit public key, and no signature.
ExpectedTemplate ==
    [contributions |-> [i \in 1..NumSlots |->
                           [num_g1 |-> transcripts[i].num_g1,
                            num_g2 |-> transcripts[i].num_g2,
                            powers |-> transcripts[i].powers,
                            pot_pubkey |-> 1]],
     ecdsa_signature |-> "NoSignature"]

\* C11 (read purity): a contribution() call changes neither the transcripts
\* nor the histories and returns one template per slot, for the current
\* state, without a signature; and a returned bundle stays the bundle
\* contribution() returns until a call reaches its add loop, so two calls
\* with no successful verify_add between them return equal bundles.
C11_ReadPurity ==
    [][/\ template' # template =>
            /\ pc = "idle"
            /\ Self' = Self
            /\ template' = ExpectedTemplate
            /\ Len(template'.contributions) = Len(transcripts)
       /\ (template = ExpectedTemplate /\ pc # "commit")
            => template' = ExpectedTemplate']_vars

\* contribution() was called after a committed round of a two-slot batch and
\* a failed call has left its value current.
C11_Witness ==
    /\ pc = "idle"
    /\ NumSlots = 2
    /\ committed = 1
    /\ result.kind = "InvalidCeremony"
    /\ template = ExpectedTemplate

\* C12 (fixed slot count): in every state the BatchTranscript has as many
\* slots as descriptors were given to new.
C12_FixedSlotCount ==
    Len(transcripts) = Len(descriptors)

\* A two-slot batch after a committed round and then a call with a wrong
\* count.
C12_Witness ==
    /\ pc = "idle"
    /\ Len(descriptors) = 2
    /\ committed = 1
    /\ Len(participant_ids) = 2
    /\ result.kind = "UnexpectedNumContributions"

\* The outcome of a call as a function of the transcripts at entry and the
\* sub-contributions alone (n and invalid are computed from these two).
OutcomeKind ==
    IF n # NumSlots THEN "UnexpectedNumContributions"
    ELSE IF invalid # {} THEN "InvalidCeremony"
    ELSE "Ok"

\* C13 (signature and identity are not checked): whether a call succeeds,
\* the error it returns and the transcripts it leaves are determined by the
\* transcripts at entry and the sub-contributions, whatever the bundle's
\* signature and the identity are; the identity shows only as the entry
\* appended to participant_ids, the signature nowhere.
C13_SignatureIdentityUnchecked ==
    /\ (pc = "idle" /\ n >= 0) =>
          /\ result.kind = OutcomeKind
          /\ result.kind = "UnexpectedNumContributions"
               => (result.expected = NumSlots /\ result.actual = n)
          /\ result.kind = "InvalidCeremony"
               => <<result.index + 1, result.reason>> \in invalid
          /\ result.kind # "Ok" => Self = pre
          /\ result.kind = "Ok" =>
               /\ participant_ecdsa_signatures = pre.participant_ecdsa_signatures
               /\ \E id \in Identities :
                     participant_ids = Append(pre.participant_ids, id)
    /\ pc = "commit" =>
          /\ participant_ids = pre.participant_ids
          /\ participant_ecdsa_signatures = pre.participant_ecdsa_signatures
          /\ \A i \in 1..NumSlots :
                transcripts[i] \in
                    {pre.transcripts[i],
                     TranscriptAdd(pre.transcripts[i],
                                   contribution.contributions[i])}

\* A signed bundle submitted as P2 has passed verification after a round
\* submitted as P1 was committed.
C13_Witness ==
    /\ pc = "commit"
    /\ NumSlots = 2
    /\ next > NumSlots
    /\ contribution.ecdsa_signature = "sig"
    /\ identity = "P2"
    /\ participant_ids = <<IdentityNone, "P1">>

IsPrefix(s, t) == Len(s) <= Len(t) /\ SubSeq(t, 1, Len(s)) = s

\* C14 (append-only history): every step leaves the old participant_ids and
\* the old participant_ecdsa_signatures as prefixes of the new ones, and the
\* first entries are always Identity::None and the empty signature.
C14_AppendOnly ==
    /\ [][/\ IsPrefix(participant_ids, participant_ids')
          /\ IsPrefix(participant_ecdsa_signatures,
                      participant_ecdsa_signatures')]_vars
    /\ [](/\ participant_ids[1] = IdentityNone
          /\ participant_ecdsa_signatures[1] = SignatureEmpty)

\* Two identities were appended behind the sentinel.
C14_Witness ==
    /\ pc = "idle"
    /\ Len(participant_ids) = 3
    /\ participant_ids[1] = IdentityNone
    /\ participant_ids[2] # participant_ids[3]

\* C15 (slot-wise commit): in the add loop the slots below `next` are
\* exactly add(contributions[i]) applied once to the slot as it was at
\* entry and the others are still as at entry (so the slots are updated in
\* increasing index order, none twice, none skipped, none from another
\* index), and returning Ok leaves the transcripts as the loop left them.
C15_SlotWiseCommit ==
    /\ [](pc = "commit" =>
            /\ next \in 1..(NumSlots + 1)
            /\ \A i \in 1..NumSlots :
                  transcripts[i] =
                      IF i < next
                      THEN TranscriptAdd(pre.transcripts[i],
                                         contribution.contributions[i])
                      ELSE pre.transcripts[i])
    /\ [][(pc = "commit" /\ pc' = "idle") =>
            (next = NumSlots + 1 /\ transcripts' = transcripts
               /\ result' = Ok)]_vars

\* A round has given the two slots of a batch different powers.
C15_Witness ==
    /\ pc = "idle"
    /\ NumSlots = 2
    /\ result.kind = "Ok"
    /\ transcripts[1].powers # transcripts[2].powers
    /\ transcripts[1].added = 1
    /\ transcripts[2].added = 1

\* C16 (verification is read-only and schedule-independent): throughout the
\* verification phase the transcripts and histories are as at entry; a task
\* that ran holds the verdict of its own slot, a task is skipped only after
\* a failure; and however the tasks were interleaved, once none is pending
\* some task has failed exactly if some slot is invalid, so the call fails
\* with the state as at entry or goes on to commit, the same for every
\* schedule.
C16_VerificationReadOnly ==
    /\ pc = "verify" =>
          /\ Self = pre
          /\ Len(task) = NumSlots
          /\ \A i \in 1..NumSlots :
                /\ task[i] \in {"pending", "skipped",
                                TranscriptVerify(pre.transcripts[i],
                                                 contribution.contributions[i])}
                /\ task[i] = "skipped" => invalid # {}
          /\ (\A j \in 1..NumSlots : task[j] # "pending") =>
                /\ (\E j \in 1..NumSlots : Failed(j)) <=> invalid # {}
                /\ (\A j \in 1..NumSlots : task[j] = "ok") <=> invalid = {}
    /\ (pc = "idle" /\ n = NumSlots) =>
          /\ invalid # {} => (result.kind = "InvalidCeremony" /\ Self = pre)
          /\ invalid = {} => result.kind = "Ok"

\* The task of the second slot ran first and failed; the first was skipped.
C16_Witness ==
    /\ pc = "verify"
    /\ NumSlots = 2
    /\ task[1] = "skipped"
    /\ task[2] = "ZeroPubkey"

\* C17 (termination of a round): when every verification task eventually
\* returns, a verify_add call that has been entered eventually returns; it
\* returns Ok only from the end of the add loop, after every task returned
\* Ok and every slot was committed, and otherwise returns the error of a
\* task that failed, once no task is still running; the add loop is never
\* entered while a task has not returned.
C17_RoundTerminates ==
    /\ (pc # "idle") ~> (pc = "idle")
    /\ [](pc = "commit" =>
            /\ Len(task) = NumSlots
            /\ \A j \in 1..NumSlots : task[j] = "ok")
    /\ [][(pc # "idle" /\ pc' = "idle") =>
            \/ /\ result'.kind = "Ok"
               /\ pc = "commit"
               /\ next = NumSlots + 1
               /\ \A j \in 1..NumSlots : task[j] = "ok"
            \/ /\ result'.kind = "InvalidCeremony"
               /\ pc = "verify"
               /\ \A j \in 1..NumSlots : task[j] # "pending"
               /\ \E j \in 1..NumSlots :
                     /\ Failed(j)
                     /\ result' = SlotError(j, task[j])]_vars

\* A failure has been observed while the task of the other slot still runs.
C17_Witness ==
    /\ pc = "verify"
    /\ NumSlots = 2
    /\ task[1] = "pending"
    /\ task[2] = "PubKeyPairingFailed"

\* C18 (the signature history is never extended): in every state, whatever
\* number of rounds has been committed and whatever signature the bundles
\* carried, participant_ecdsa_signatures is the one-element sequence holding
\* the empty signature, while participant_ids holds one entry more than the
\* number of committed rounds.
C18_SignaturesNeverExtended ==
    /\ participant_ecdsa_signatures = <<SignatureEmpty>>
    /\ Len(participant_ids) = committed + 1
    /\ \A k \in 1..Len(participant_ecdsa_signatures) :
          participant_ecdsa_signatures[k] \notin BundleSignatures

\* Two rounds have been committed, the second just now.
C18_Witness ==
    /\ pc = "idle"
    /\ committed = 2
    /\ result.kind = "Ok"
    /\ Len(participant_ids) = 3
    /\ Len(participant_ecdsa_signatures) = 1

\* C19 (zero-slot batch): for a BatchTranscript built from no descriptors,
\* verify_add with an empty bundle has no verification task to run, goes
\* through an empty add loop, appends the given identity to participant_ids
\* and returns Ok, every time; a bundle of actual >= 1 sub-contributions is
\* rejected with UnexpectedNumContributions(0, actual) and the state is left
\* as it was.
C19_ZeroSlotBatch ==
    /\ [](descriptors = <<>> =>
            /\ transcripts = <<>>
            /\ task = <<>>
            /\ invalid = {}
            /\ pc = "commit" => (n = 0 /\ contribution.contributions = <<>>)
            /\ (pc = "idle" /\ n = 0) =>
                  /\ result = Ok
                  /\ Len(participant_ids) = Len(pre.participant_ids) + 1
            /\ (pc = "idle" /\ n > 0) =>
                  /\ result = UnexpectedNumContributions(0, n)
                  /\ Self = pre)
    /\ [][(descriptors = <<>> /\ pc # "idle" /\ pc' = "idle") =>
            /\ result' = Ok
            /\ participant_ids' = Append(participant_ids, identity)]_vars

\* Two rounds have been recorded in the history of a batch without slots.
C19_Witness ==
    /\ descriptors = <<>>
    /\ pc = "idle"
    /\ committed = 2
    /\ result = Ok
    /\ participant_ids[2] \in Identities
    /\ participant_ids[3] \in Identities

\* C20 (exclusive access during a round): from the entry of a verify_add to
\* its return no other verify_add is entered and no contribution() reads the
\* instance: the arguments and the entry state of the call under way stay
\* what they are and no template is produced; and in every state in which a
\* caller can act, either nothing of the last call is committed or every
\* slot is committed and the identity is appended.
C20_ExclusiveAccess ==
    /\ [][pc # "idle" =>
            /\ template' = template
            /\ pre' = pre
            /\ n' = n
            /\ resubmitted' = resubmitted
            /\ pc' # "idle" =>
                  (contribution' = contribution /\ identity' = identity)]_vars
    /\ [](pc = "idle" =>
            \/ Self = pre
            \/ /\ result = Ok
               /\ Len(participant_ids) = Len(pre.participant_ids) + 1
               /\ SubSeq(participant_ids, 1, Len(pre.participant_ids))
                     = pre.participant_ids
               /\ \A i \in 1..NumSlots :
                     /\ transcripts[i] # pre.transcripts[i]
                     /\ transcripts[i].added = pre.transcripts[i].added + 1)

\* Inside the add loop, with the first slot committed and the second not:
\* a state no caller can see.
C20_Witness ==
    /\ pc = "commit"
    /\ NumSlots = 2
    /\ next = 2
    /\ transcripts[1] # pre.transcripts[1]
    /\ transcripts[2] = pre.transcripts[2]
    /\ participant_ids = pre.participant_ids

====
